---------------------------- MODULE Spec2Model ----------------------------
(***************************************************************************)
(* Wire-protocol command model of the iggy SDK: SendMessages, its          *)
(* primitives Partitioning and Message, and LogoutUser                     *)
(* (sdk/src/messages/send_messages.rs, sdk/src/users/logout_user.rs).      *)
(*                                                                         *)
(* Representation.  A byte is a number in 0..255, a byte buffer (Bytes,    *)
(* Vec<u8>) is a sequence of bytes indexed from 1 (the source indexes from *)
(* 0, so bytes[k] of the source is bytes[k+1] here).  usize values are     *)
(* unbounded naturals.  U32Mod stands for 2^32, the modulus of u32: the    *)
(* cast `x.len() as u32` truncates modulo U32Mod and the u32 `+=` of a     *)
(* build without overflow checks wraps modulo U32Mod.  U32Mod is scaled    *)
(* down so that payloads long enough to be truncated can be enumerated;    *)
(* MAX_PAYLOAD_SIZE and MAX_HEADERS_SIZE are scaled with it.  Lengths      *)
(* read from the wire and partition ids keep their real range.  A Result   *)
(* is a record tagged "Ok", "Err" or "Panic" (an out-of-range slice or     *)
(* index aborts the call).  Identifier and the header set live outside     *)
(* the two files above and follow their documented wire form.              *)
(***************************************************************************)
EXTENDS Integers, Sequences, FiniteSets, TLC

VARIABLES pc, order, cmd, vres, vres2, wire, parsed, part, arg, msg, pos, msgs,
          server

vars == <<pc, order, cmd, vres, vres2, wire, parsed, part, arg, msg, pos, msgs, server>>

-----------------------------------------------------------------------------
(* Bounds of the model *)

\* the modulus of u32 arithmetic (2^32 in the program), scaled
U32Mod == 1024

\* number of messages in an enumerated batch
MaxBatch == 2

\* number of turns of the parsing loop that are followed
MaxLoop == 6

-----------------------------------------------------------------------------
(* Protocol constants (crate::messages), scaled with U32Mod *)

MAX_PAYLOAD_SIZE == 20

MAX_HEADERS_SIZE == 16

-----------------------------------------------------------------------------
(* Results and byte helpers *)

Ok(v) == [tag |-> "Ok", val |-> v]

Err(e) == [tag |-> "Err", err |-> e]

Panic == [tag |-> "Panic"]

IsOk(r) == r.tag = "Ok"

\* n bytes all equal to b
Repeat(b, n) == [i \in 1..n |-> b]

\* bytes[from..to] of the source (0-based, `to` exclusive), in range
Slice(bytes, from, to) == SubSeq(bytes, from + 1, to)

\* x.to_le_bytes() / put_uN_le(x) for a k-byte unsigned integer
RECURSIVE to_le_bytes(_, _)
to_le_bytes(x, k) ==
    IF k = 0 THEN <<>> ELSE <<x % 256>> \o to_le_bytes(x \div 256, k - 1)

\* uN::from_le_bytes(bytes)
RECURSIVE from_le_bytes(_)
from_le_bytes(bytes) ==
    IF bytes = <<>> THEN 0 ELSE bytes[1] + 256 * from_le_bytes(Tail(bytes))

\* `x as u32` for a usize x, and u32 addition without overflow checks
as_u32(x) == x % U32Mod

add_u32(a, b) == (a + b) % U32Mod

RECURSIVE SumSeq(_)
SumSeq(s) == IF s = <<>> THEN 0 ELSE s[1] + SumSeq(Tail(s))

RECURSIVE Concat(_)
Concat(ss) == IF ss = <<>> THEN <<>> ELSE ss[1] \o Concat(Tail(ss))

-----------------------------------------------------------------------------
(* Identifier (crate::identifier): kind byte, length byte, value *)

Identifier_numeric(n) == [kind |-> "Numeric", length |-> 4, value |-> to_le_bytes(n, 4)]

Identifier_named(s) == [kind |-> "Named", length |-> Len(s), value |-> s]

Identifier_get_size_bytes(id) == 2 + id.length

Identifier_as_bytes(id) ==
    <<IF id.kind = "Numeric" THEN 1 ELSE 2, id.length>> \o id.value

Identifier_from_bytes(bytes) ==
    IF Len(bytes) < 3 THEN Err("InvalidCommand")
    ELSE IF bytes[1] \notin {1, 2} THEN Err("InvalidCommand")
    ELSE IF 2 + bytes[2] > Len(bytes) THEN Err("InvalidCommand")
    ELSE IF bytes[1] = 1 /\ bytes[2] # 4 THEN Err("InvalidCommand")
    ELSE IF bytes[2] = 0 THEN Err("InvalidCommand")
    ELSE Ok([kind |-> IF bytes[1] = 1 THEN "Numeric" ELSE "Named",
             length |-> bytes[2],
             value |-> Slice(bytes, 2, 2 + bytes[2])])

-----------------------------------------------------------------------------
(* Header set (crate::models::header): a map HeaderKey -> HeaderValue,     *)
(* here a set of records [key, kind, value] with pairwise distinct keys.   *)
(* Option<HashMap> is <<>> for None and <<map>> for Some(map).             *)

None == <<>>

Some(h) == <<h>>

\* the keys of a map in the order the HashMap iterates them; `ord` lists
\* every key the model uses and stands for the map's hasher state
KeysInOrder(h, ord) == SelectSeq(ord, LAMBDA k : \E e \in h : e.key = k)

Entry(h, k) == CHOOSE e \in h : e.key = k

\* one record: u32 key length, key, kind code, u32 value length, value
HeaderEntry_as_bytes(e) ==
    to_le_bytes(Len(e.key), 4) \o e.key \o <<e.kind>>
        \o to_le_bytes(Len(e.value), 4) \o e.value

Headers_as_bytes(h, ord) ==
    LET keys == KeysInOrder(h, ord)
    IN Concat([i \in 1..Len(keys) |-> HeaderEntry_as_bytes(Entry(h, keys[i]))])

\* HashMap::insert: a later record with the same key replaces the earlier
HeadersInsert(h, e) == {x \in h : x.key # e.key} \cup {e}

RECURSIVE Headers_parse(_, _, _)
Headers_parse(bytes, position, h) ==
    IF position >= Len(bytes) THEN Ok(h)
    ELSE IF position + 4 > Len(bytes) THEN Err("InvalidHeaderKey")
    ELSE LET kl == from_le_bytes(Slice(bytes, position, position + 4))
         IN IF kl = 0 \/ kl > 255 THEN Err("InvalidHeaderKey")
            ELSE IF position + 4 + kl + 5 > Len(bytes) THEN Err("InvalidHeaderValue")
            ELSE LET p2 == position + 4 + kl
                     vl == from_le_bytes(Slice(bytes, p2 + 1, p2 + 5))
                 IN IF vl = 0 \/ vl > 255 \/ bytes[p2 + 1] \notin 1..15
                            \/ p2 + 5 + vl > Len(bytes)
                    THEN Err("InvalidHeaderValue")
                    ELSE Headers_parse(bytes, p2 + 5 + vl,
                            HeadersInsert(h, [key |-> Slice(bytes, position + 4, p2),
                                              kind |-> bytes[p2 + 1],
                                              value |-> Slice(bytes, p2 + 5, p2 + 5 + vl)]))

Headers_from_bytes(bytes) == Headers_parse(bytes, 0, {})

RECURSIVE HeadersRecordsSize(_)
HeadersRecordsSize(h) ==
    IF h = {} THEN 0
    ELSE LET e == CHOOSE x \in h : TRUE
         IN add_u32(as_u32(4 + Len(e.key) + 1 + 4 + Len(e.value)),
                    HeadersRecordsSize(h \ {e}))

\* header::get_headers_size_bytes: the headers length field, then for each
\* record key length + key + kind + value length + value
get_headers_size_bytes(headers) ==
    IF headers = None THEN 4 ELSE add_u32(4, HeadersRecordsSize(headers[1]))

-----------------------------------------------------------------------------
(* PartitioningKind and Partitioning *)

PartitioningKind_as_code(kind) ==
    CASE kind = "Balanced" -> 1
      [] kind = "PartitionId" -> 2
      [] kind = "MessagesKey" -> 3

\* mutant: code 0 read as the default kind
PartitioningKind_from_code_zero(code) ==
    CASE code = 0 -> Ok("Balanced")
      [] code = 1 -> Ok("Balanced")
      [] code = 2 -> Ok("PartitionId")
      [] code = 3 -> Ok("MessagesKey")
      [] OTHER -> Err("InvalidCommand")

PartitioningKind_from_code(code) ==
    CASE code = 1 -> Ok("Balanced")
      [] code = 2 -> Ok("PartitionId")
      [] code = 3 -> Ok("MessagesKey")
      [] OTHER -> Err("InvalidCommand")

EMPTY_KEY_VALUE == <<>>

Partitioning_balanced ==
    [kind |-> "Balanced", length |-> 0, value |-> EMPTY_KEY_VALUE]

\* mutant: the value written high byte first
Partitioning_partition_id_be(partition_id) ==
    [kind |-> "PartitionId", length |-> 4,
     value |-> [i \in 1..4 |-> to_le_bytes(partition_id, 4)[5 - i]]]

Partitioning_partition_id(partition_id) ==
    [kind |-> "PartitionId", length |-> 4, value |-> to_le_bytes(partition_id, 4)]

\* mutant: the upper bound of the key length off by one
Partitioning_messages_key_256(value) ==
    LET length == Len(value)
    IN IF length = 0 \/ length > 256 THEN Err("InvalidCommand")
       ELSE Ok([kind |-> "MessagesKey", length |-> length % 256, value |-> value])

Partitioning_messages_key(value) ==
    LET length == Len(value)
    IN IF length = 0 \/ length > 255 THEN Err("InvalidCommand")
       ELSE Ok([kind |-> "MessagesKey", length |-> length % 256, value |-> value])

\* value.as_bytes() of a &str is its UTF-8 bytes, the representation of
\* a string here
Partitioning_messages_key_str(value) == Partitioning_messages_key(value)

Partitioning_messages_key_u32(value) ==
    [kind |-> "MessagesKey", length |-> 4, value |-> to_le_bytes(value, 4)]

Partitioning_messages_key_u64(value) ==
    [kind |-> "MessagesKey", length |-> 8, value |-> to_le_bytes(value, 8)]

Partitioning_messages_key_u128(value) ==
    [kind |-> "MessagesKey", length |-> 16, value |-> to_le_bytes(value, 16)]

Partitioning_from_partitioning(partitioning) ==
    [kind |-> partitioning.kind, length |-> partitioning.length,
     value |-> partitioning.value]

Partitioning_get_size_bytes(p) == 2 + p.length

Partitioning_as_bytes(p) ==
    <<PartitioningKind_as_code(p.kind), p.length>> \o p.value

Partitioning_from_bytes(bytes) ==
    IF Len(bytes) < 3 THEN Err("InvalidCommand")
    ELSE LET kind == PartitioningKind_from_code(bytes[1])
             length == bytes[2]
         IN IF ~IsOk(kind) THEN kind
            ELSE IF 2 + length > Len(bytes) THEN Panic
            ELSE LET value == Slice(bytes, 2, 2 + length)
                 IN IF Len(value) # length THEN Err("InvalidCommand")
                    ELSE Ok([kind |-> kind.val, length |-> length, value |-> value])

-----------------------------------------------------------------------------
(* Message *)

RECURSIVE String_from_utf8_lossy(_)
\* the text of a byte string as code points: a byte below 128 is itself, a
\* well-formed two-byte sequence is its code point, and a byte that starts
\* no well-formed sequence U+FFFD; the key values here hold no longer
\* sequence
String_from_utf8_lossy(bytes) ==
    IF bytes = <<>> THEN <<>>
    ELSE IF bytes[1] < 128 THEN <<bytes[1]>> \o String_from_utf8_lossy(Tail(bytes))
    ELSE IF bytes[1] \in 194..223 /\ Len(bytes) >= 2 /\ bytes[2] \in 128..191
         THEN <<(bytes[1] - 192) * 64 + (bytes[2] - 128)>>
                  \o String_from_utf8_lossy(Tail(Tail(bytes)))
    ELSE <<65533>> \o String_from_utf8_lossy(Tail(bytes))

\* Display: the kind and, after "|", 0, the partition id read from the
\* first four value bytes, or the key as text
Partitioning_fmt(p) ==
    CASE p.kind = "Balanced" -> Ok(<<"balanced", 0>>)
      [] p.kind = "PartitionId" ->
            IF Len(p.value) < 4 THEN Panic
            ELSE Ok(<<"partition_id", from_le_bytes(Slice(p.value, 0, 4))>>)
      [] p.kind = "MessagesKey" -> Ok(<<"messages_key", String_from_utf8_lossy(p.value)>>)

default_message_id == 0

\* Message::new with id = None (<<>>) or Some(n) (<<n>>)
Message_new(id, payload, headers) ==
    [id |-> IF id = None THEN 0 ELSE id[1],
     length |-> as_u32(Len(payload)),
     payload |-> payload,
     headers |-> headers]

Message_from_str(input) ==
    LET payload == input
        length == as_u32(Len(payload))
    IN IF length = 0 THEN Err("EmptyMessagePayload")
       ELSE Ok([id |-> default_message_id, length |-> length,
                payload |-> payload, headers |-> None])

\* Default for Message: the payload "hello world"
Message_default ==
    LET payload == <<104, 101, 108, 108, 111, 32, 119, 111, 114, 108, 100>>
    IN [id |-> 0, length |-> as_u32(Len(payload)), payload |-> payload,
        headers |-> None]

Message_get_size_bytes(m) ==
    add_u32(add_u32(16 + 4, as_u32(Len(m.payload))), get_headers_size_bytes(m.headers))

Message_as_bytes(m, ord) ==
    to_le_bytes(m.id, 16)
        \o (IF m.headers # None
            THEN LET headers_bytes == Headers_as_bytes(m.headers[1], ord)
                 IN to_le_bytes(as_u32(Len(headers_bytes)), 4) \o headers_bytes
            ELSE to_le_bytes(0, 4))
        \o to_le_bytes(m.length, 4)
        \o m.payload

Message_from_bytes(bytes) ==
    IF Len(bytes) < 24 THEN Err("InvalidCommand")
    ELSE LET id == from_le_bytes(Slice(bytes, 0, 16))
             headers_length == from_le_bytes(Slice(bytes, 16, 20))
         IN IF headers_length > 0 /\ 20 + headers_length > Len(bytes) THEN Panic
            ELSE LET headers == IF headers_length > 0
                                THEN Headers_from_bytes(Slice(bytes, 20, 20 + headers_length))
                                ELSE Ok({})
                 IN IF ~IsOk(headers) THEN headers
                    ELSE IF 24 + headers_length > Len(bytes) THEN Panic
                    ELSE LET payload_length ==
                                 from_le_bytes(Slice(bytes, 20 + headers_length,
                                                     24 + headers_length))
                         IN IF payload_length = 0 THEN Err("EmptyMessagePayload")
                            ELSE IF 24 + headers_length + payload_length > Len(bytes)
                                 THEN Panic
                            ELSE LET payload == Slice(bytes, 24 + headers_length,
                                                      24 + headers_length + payload_length)
                                 IN IF Len(payload) # payload_length
                                    THEN Err("InvalidMessagePayloadLength")
                                    ELSE Ok([id |-> id, length |-> payload_length,
                                             payload |-> payload,
                                             headers |-> IF headers_length > 0
                                                         THEN Some(headers.val)
                                                         ELSE None])

-----------------------------------------------------------------------------
(* SendMessages *)

\* the inner loop of validate over headers.values(): the running header
\* total after each value, or the error
RECURSIVE validate_values(_, _)
validate_values(values, headers_size) ==
    IF values = <<>> THEN Ok(headers_size)
    ELSE LET size == add_u32(headers_size, as_u32(Len(values[1])))
         IN IF size > MAX_HEADERS_SIZE THEN Err("TooBigHeadersPayload")
            ELSE validate_values(Tail(values), size)

HeaderValues(m, ord) ==
    IF m.headers = None THEN <<>>
    ELSE LET keys == KeysInOrder(m.headers[1], ord)
         IN [i \in 1..Len(keys) |-> Entry(m.headers[1], keys[i]).value]

\* the loop of validate over the messages: the final payload total, or the
\* error
RECURSIVE validate_messages(_, _, _, _)
validate_messages(messages, headers_size, payload_size, ord) ==
    IF messages = <<>> THEN Ok(payload_size)
    ELSE LET message == messages[1]
             hs == validate_values(HeaderValues(message, ord), headers_size)
         IN IF ~IsOk(hs) THEN hs
            ELSE LET ps == add_u32(payload_size, as_u32(Len(message.payload)))
                 IN IF ps > MAX_PAYLOAD_SIZE THEN Err("TooBigMessagePayload")
                    ELSE validate_messages(Tail(messages), hs.val, ps, ord)

\* mutant: the key length is checked before the messages count
SendMessages_validate_key_first(c, ord) ==
    LET key_value_length == Len(c.partitioning.value)
    IN IF key_value_length > 255
           \/ (c.partitioning.kind # "Balanced" /\ key_value_length = 0)
       THEN Err("InvalidKeyValueLength")
       ELSE IF c.messages = <<>> THEN Err("InvalidMessagesCount")
       ELSE LET walk == validate_messages(c.messages, 0, 0, ord)
            IN IF ~IsOk(walk) THEN walk
               ELSE IF walk.val = 0 THEN Err("EmptyMessagePayload")
               ELSE Ok("unit")

SendMessages_validate(c, ord) ==
    IF c.messages = <<>> THEN Err("InvalidMessagesCount")
    ELSE LET key_value_length == Len(c.partitioning.value)
         IN IF key_value_length > 255
                \/ (c.partitioning.kind # "Balanced" /\ key_value_length = 0)
            THEN Err("InvalidKeyValueLength")
            ELSE LET walk == validate_messages(c.messages, 0, 0, ord)
                 IN IF ~IsOk(walk) THEN walk
                    ELSE IF walk.val = 0 THEN Err("EmptyMessagePayload")
                    ELSE Ok("unit")

SendMessages_as_bytes(c, ord) ==
    Identifier_as_bytes(c.stream_id)
        \o Identifier_as_bytes(c.topic_id)
        \o Partitioning_as_bytes(c.partitioning)
        \o Concat([i \in 1..Len(c.messages) |-> Message_as_bytes(c.messages[i], ord)])

\* the sum 16 + 4 + payload.len() as u32 + headers size of get_size_bytes
\* passes the range of u32: the addition wraps, or panics in a build with
\* overflow checks
Message_get_size_bytes_overflows(m) ==
    20 + as_u32(Len(m.payload)) + get_headers_size_bytes(m.headers) >= U32Mod

\* from_bytes up to the loop: the identifiers, the partitioning and the
\* bytes of the messages
SendMessages_parse_head(bytes) ==
    IF Len(bytes) < 11 THEN Err("InvalidCommand")
    ELSE LET stream_id == Identifier_from_bytes(bytes)
         IN IF ~IsOk(stream_id) THEN stream_id
            ELSE LET p1 == Identifier_get_size_bytes(stream_id.val)
                     topic_id == Identifier_from_bytes(Slice(bytes, p1, Len(bytes)))
                 IN IF ~IsOk(topic_id) THEN topic_id
                    ELSE LET p2 == p1 + Identifier_get_size_bytes(topic_id.val)
                             key == Partitioning_from_bytes(Slice(bytes, p2, Len(bytes)))
                         IN IF ~IsOk(key) THEN key
                            ELSE LET p3 == p2 + Partitioning_get_size_bytes(key.val)
                                 IN Ok([stream_id |-> stream_id.val,
                                        topic_id |-> topic_id.val,
                                        partitioning |-> key.val,
                                        messages_payloads |-> Slice(bytes, p3, Len(bytes))])

\* the while loop of from_bytes over messages_payloads
RECURSIVE parse_messages(_, _, _)
parse_messages(messages_payloads, position, messages) ==
    IF ~(position < Len(messages_payloads)) THEN Ok(messages)
    ELSE LET message == Message_from_bytes(
                            Slice(messages_payloads, position, Len(messages_payloads)))
         IN IF ~IsOk(message) THEN message
            ELSE LET next == position + Message_get_size_bytes(message.val)
                 IN parse_messages(messages_payloads, next,
                                   Append(messages, message.val))

\* from_bytes up to the construction of `command`
SendMessages_parse(bytes) ==
    IF Len(bytes) < 11 THEN Err("InvalidCommand")
    ELSE LET stream_id == Identifier_from_bytes(bytes)
         IN IF ~IsOk(stream_id) THEN stream_id
            ELSE LET p1 == Identifier_get_size_bytes(stream_id.val)
                     topic_id == Identifier_from_bytes(Slice(bytes, p1, Len(bytes)))
                 IN IF ~IsOk(topic_id) THEN topic_id
                    ELSE LET p2 == p1 + Identifier_get_size_bytes(topic_id.val)
                             key == Partitioning_from_bytes(Slice(bytes, p2, Len(bytes)))
                         IN IF ~IsOk(key) THEN key
                            ELSE LET p3 == p2 + Partitioning_get_size_bytes(key.val)
                                     messages == parse_messages(
                                                     Slice(bytes, p3, Len(bytes)), 0, <<>>)
                                 IN IF ~IsOk(messages) THEN messages
                                    ELSE Ok([stream_id |-> stream_id.val,
                                             topic_id |-> topic_id.val,
                                             partitioning |-> key.val,
                                             messages |-> messages.val])

\* mutant: the parsed command is returned without validation
SendMessages_from_bytes_unvalidated(bytes, ord) == SendMessages_parse(bytes)

SendMessages_from_bytes(bytes, ord) ==
    LET command == SendMessages_parse(bytes)
    IN IF ~IsOk(command) THEN command
       ELSE LET valid == SendMessages_validate(command.val, ord)
            IN IF ~IsOk(valid) THEN valid ELSE command

-----------------------------------------------------------------------------
(* LogoutUser: a command without fields *)

LogoutUser == [name |-> "LogoutUser"]

LogoutUser_validate(c) == Ok("unit")

LogoutUser_as_bytes(c) == <<>>

\* mutant: the payload is not required to be empty
LogoutUser_from_bytes_lenient(bytes) ==
    LET command == LogoutUser
        valid == LogoutUser_validate(command)
    IN IF ~IsOk(valid) THEN valid ELSE Ok(command)

LogoutUser_from_bytes(bytes) ==
    IF bytes # <<>> THEN Err("InvalidCommand")
    ELSE LET command == LogoutUser
             valid == LogoutUser_validate(command)
         IN IF ~IsOk(valid) THEN valid ELSE Ok(command)

-----------------------------------------------------------------------------
(* Inputs *)

Unset == "unset"

\* header keys and the iteration orders of a map over them
K1 == <<107>>

K2 == <<107, 50>>

HashOrders == {<<K1, K2>>, <<K2, K1>>}

HeaderOf(key, n) == [key |-> key, kind |-> 2, value |-> Repeat(118, n)]

HeaderSets ==
    { {},
      {HeaderOf(K1, 1)},
      {HeaderOf(K1, 1), HeaderOf(K2, 2)},
      {HeaderOf(K1, MAX_HEADERS_SIZE)},
      {HeaderOf(K1, MAX_HEADERS_SIZE - 1), HeaderOf(K2, 2)} }

\* payloads by length: empty, short, at and over the limit, and long enough
\* for `len() as u32` to truncate
PayloadLens == {0, 1, 7, MAX_PAYLOAD_SIZE, MAX_PAYLOAD_SIZE + 1, U32Mod, U32Mod + 1}

Messages ==
    {Message_new(None, Repeat(104, n), None) : n \in PayloadLens}
        \cup {Message_new(Some(2), Repeat(105, 1), Some(h)) : h \in HeaderSets}
        \cup {Message_new(Some(3), <<>>, Some({HeaderOf(K2, 1)}))}

Batches == UNION {[1..n -> Messages] : n \in 0..MaxBatch}

Partitionings ==
    { Partitioning_balanced,
      Partitioning_partition_id(4),
      Partitioning_messages_key(<<9>>).val,
      Partitioning_messages_key(Repeat(9, 255)).val,
      [kind |-> "Balanced", length |-> 1, value |-> <<9>>],
      [kind |-> "PartitionId", length |-> 0, value |-> <<>>],
      [kind |-> "MessagesKey", length |-> 0, value |-> <<>>],
      [kind |-> "MessagesKey", length |-> 0, value |-> Repeat(9, 256)] }

BuilderPartitionings ==
    { Partitioning_balanced,
      Partitioning_partition_id(4),
      Partitioning_messages_key(<<9>>).val,
      Partitioning_messages_key(Repeat(9, 255)).val }

IdentifierPairs ==
    { <<Identifier_numeric(1), Identifier_numeric(2)>>,
      <<Identifier_named(<<115>>), Identifier_named(<<116, 112>>)>> }

Commands ==
    { [stream_id |-> ids[1], topic_id |-> ids[2], partitioning |-> p, messages |-> b] :
        ids \in IdentifierPairs, p \in Partitionings, b \in Batches }

-----------------------------------------------------------------------------
(* SpecCmd: a client builds a command, validates it (twice), serializes it *)
(* and the server parses the bytes back.                                   *)

InitCmd ==
    /\ pc = "built"
    /\ order \in HashOrders
    /\ cmd \in Commands
    /\ vres = Unset /\ vres2 = Unset /\ wire = Unset /\ parsed = Unset
    /\ part = Unset /\ arg = Unset
    /\ msg = Unset /\ pos = Unset /\ msgs = Unset /\ server = Unset

Validate ==
    /\ pc = "built"
    /\ vres' = SendMessages_validate(cmd, order)
    /\ pc' = "validated"
    /\ UNCHANGED <<order, cmd, vres2, wire, parsed, part, arg>>
    /\ UNCHANGED <<msg, pos, msgs, server>>

Revalidate ==
    /\ pc = "validated"
    /\ vres2' = SendMessages_validate(cmd, order)
    /\ pc' = "revalidated"
    /\ UNCHANGED <<order, cmd, vres, wire, parsed, part, arg>>
    /\ UNCHANGED <<msg, pos, msgs, server>>

AsBytes ==
    /\ pc = "revalidated"
    /\ wire' = SendMessages_as_bytes(cmd, order)
    /\ pc' = "serialized"
    /\ UNCHANGED <<order, cmd, vres, vres2, parsed, part, arg>>
    /\ UNCHANGED <<msg, pos, msgs, server>>

FromBytes ==
    /\ pc = "serialized"
    /\ parsed' = SendMessages_from_bytes(wire, order)
    /\ pc' = "parsed"
    /\ UNCHANGED <<order, cmd, vres, vres2, wire, part, arg>>
    /\ UNCHANGED <<msg, pos, msgs, server>>

NextCmd == Validate \/ Revalidate \/ AsBytes \/ FromBytes

SpecCmd == InitCmd /\ [][NextCmd]_vars

-----------------------------------------------------------------------------
(* SpecFuzz: a byte buffer arrives and is handed to one of the parsers; a  *)
(* command that SendMessages::from_bytes or LogoutUser::from_bytes returns *)
(* is validated again, twice.                                              *)

Prefixes(bytes) == {SubSeq(bytes, 1, n) : n \in 0..Len(bytes)}

\* bytes with the byte at 0-based offset i replaced by v
SetByte(bytes, i, v) == [bytes EXCEPT ![i + 1] = v]

FuzzMessages ==
    << Message_as_bytes(Message_from_str(<<104, 105>>).val, <<K1, K2>>),
       Message_as_bytes(Message_new(Some(2), <<97>>,
                            Some({HeaderOf(K1, 1), HeaderOf(K2, 2)})), <<K1, K2>>),
       Message_as_bytes(Message_new(Some(3), <<98>>, None), <<K1, K2>>) >>

\* a message whose header bytes hold two records with the same key
DuplicateHeaderMessage ==
    to_le_bytes(7, 16) \o to_le_bytes(22, 4)
        \o HeaderEntry_as_bytes(HeaderOf(K1, 1)) \o HeaderEntry_as_bytes(HeaderOf(K1, 1))
        \o to_le_bytes(1, 4) \o <<97>>

FuzzCommands ==
    << Identifier_as_bytes(Identifier_numeric(1)) \o Identifier_as_bytes(Identifier_numeric(2))
           \o Partitioning_as_bytes(Partitioning_partition_id(4))
           \o FuzzMessages[1] \o FuzzMessages[3],
       Identifier_as_bytes(Identifier_named(<<115>>)) \o Identifier_as_bytes(Identifier_named(<<116>>))
           \o Partitioning_as_bytes(Partitioning_balanced)
           \o FuzzMessages[2],
       Identifier_as_bytes(Identifier_named(<<115>>)) \o Identifier_as_bytes(Identifier_named(<<116>>))
           \o <<1, 1, 9>>
           \o FuzzMessages[3] >>

\* commands whose partitioning has the kind PartitionId and a value of one
\* byte, and of five bytes
ShortPartitionIdCommand ==
    Identifier_as_bytes(Identifier_numeric(1)) \o Identifier_as_bytes(Identifier_numeric(2))
        \o <<2, 1, 9>> \o FuzzMessages[3]

LongPartitionIdCommand ==
    Identifier_as_bytes(Identifier_numeric(1)) \o Identifier_as_bytes(Identifier_numeric(2))
        \o <<2, 5, 4, 0, 0, 0, 1>> \o FuzzMessages[1]

FuzzInputs ==
    UNION {Prefixes(FuzzCommands[i]) : i \in 1..3}
        \cup {ShortPartitionIdCommand, LongPartitionIdCommand}
        \cup UNION {Prefixes(FuzzMessages[i]) : i \in 1..3}
        \cup Prefixes(<<3, 4, 1, 2, 3, 4>>)
        \cup {<<1, 0>>, <<1, 0, 0>>, <<0, 0, 0>>, <<4, 1, 7>>, <<2, 255, 1>>, <<0>>}
        \* a headers length, a payload length, a key length beyond the buffer
        \cup {SetByte(FuzzMessages[2], 16, 200), SetByte(FuzzMessages[1], 20, 3),
              SetByte(FuzzMessages[1], 20, 0), SetByte(FuzzMessages[1], 20, 1),
              SetByte(FuzzCommands[1], 13, 250), SetByte(FuzzCommands[1], 38, 9),
              SetByte(FuzzCommands[2], 7, 3), SetByte(FuzzCommands[2], 30, 0),
              SetByte(FuzzMessages[2], 20, 0), SetByte(FuzzCommands[1], 38, 0),
              DuplicateHeaderMessage,
              SubSeq(FuzzCommands[2], 1, 8) \o DuplicateHeaderMessage \o FuzzMessages[3]}

InitFuzz ==
    /\ pc = "received"
    /\ order \in HashOrders
    /\ wire \in FuzzInputs
    /\ cmd = Unset /\ vres = Unset /\ vres2 = Unset /\ parsed = Unset
    /\ part = Unset /\ arg = Unset
    /\ msg = Unset /\ pos = Unset /\ msgs = Unset /\ server = Unset

ParseSendMessages ==
    /\ pc = "received"
    /\ parsed' = SendMessages_from_bytes(wire, order)
    /\ pc' = "parsed_send_messages"
    /\ UNCHANGED <<order, cmd, vres, vres2, wire, part, arg>>
    /\ UNCHANGED <<msg, pos, msgs, server>>

ParsePartitioning ==
    /\ pc = "received"
    /\ parsed' = Partitioning_from_bytes(wire)
    /\ pc' = "parsed_partitioning"
    /\ UNCHANGED <<order, cmd, vres, vres2, wire, part, arg>>
    /\ UNCHANGED <<msg, pos, msgs, server>>

ParseMessage ==
    /\ pc = "received"
    /\ parsed' = Message_from_bytes(wire)
    /\ pc' = "parsed_message"
    /\ UNCHANGED <<order, cmd, vres, vres2, wire, part, arg>>
    /\ UNCHANGED <<msg, pos, msgs, server>>

ParseLogoutUser ==
    /\ pc = "received"
    /\ parsed' = LogoutUser_from_bytes(wire)
    /\ pc' = "parsed_logout_user"
    /\ UNCHANGED <<order, cmd, vres, vres2, wire, part, arg>>
    /\ UNCHANGED <<msg, pos, msgs, server>>

\* the caller takes the command out of the Ok result
Accept ==
    /\ pc = "parsed_send_messages"
    /\ IsOk(parsed)
    /\ cmd' = parsed.val
    /\ pc' = "built"
    /\ UNCHANGED <<order, vres, vres2, wire, parsed, part, arg>>
    /\ UNCHANGED <<msg, pos, msgs, server>>

\* the partitioning of the accepted command is printed
DisplayPartitioning ==
    /\ pc = "built"
    /\ vres' = Partitioning_fmt(cmd.partitioning)
    /\ pc' = "displayed"
    /\ UNCHANGED <<order, cmd, vres2, wire, parsed, part, arg>>
    /\ UNCHANGED <<msg, pos, msgs, server>>

ValidateLogoutUser ==
    /\ pc = "parsed_logout_user"
    /\ IsOk(parsed)
    /\ cmd' = parsed.val
    /\ vres' = LogoutUser_validate(parsed.val)
    /\ pc' = "logout_validated"
    /\ UNCHANGED <<order, vres2, wire, parsed, part, arg>>
    /\ UNCHANGED <<msg, pos, msgs, server>>

RevalidateLogoutUser ==
    /\ pc = "logout_validated"
    /\ vres2' = LogoutUser_validate(cmd)
    /\ pc' = "logout_revalidated"
    /\ UNCHANGED <<order, cmd, vres, wire, parsed, part, arg>>
    /\ UNCHANGED <<msg, pos, msgs, server>>

\* the command taken from the buffer is serialized again
SerializeLogoutUser ==
    /\ pc = "logout_revalidated"
    /\ wire' = LogoutUser_as_bytes(cmd)
    /\ pc' = "logout_serialized"
    /\ UNCHANGED <<order, cmd, vres, vres2, parsed, part, arg>>
    /\ UNCHANGED <<msg, pos, msgs, server>>

NextFuzz ==
    \/ ParseSendMessages \/ ParsePartitioning \/ ParseMessage \/ ParseLogoutUser
    \/ Accept \/ Validate \/ Revalidate \/ DisplayPartitioning
    \/ ValidateLogoutUser \/ RevalidateLogoutUser \/ SerializeLogoutUser

SpecFuzz == InitFuzz /\ [][NextFuzz]_vars

-----------------------------------------------------------------------------
(* SpecPart: a partitioning is built by one of the builders, serialized    *)
(* and parsed back on its own.                                             *)

PartitionIds == (0..40) \cup {255, 256, 1234, 65535, 65536, 16909060, 2147483647}

KeyValues ==
    {Repeat(9, n) : n \in {0, 1, 2, 11, 254, 255, 256, 257}}
        \cup {<<104, 101, 108, 108, 111>>, <<0>>, <<255, 0, 1>>}

InitPart ==
    /\ pc = "start"
    /\ order = <<K1, K2>>
    /\ cmd = Unset /\ vres = Unset /\ vres2 = Unset /\ wire = Unset /\ parsed = Unset
    /\ part = Unset /\ arg = Unset
    /\ msg = Unset /\ pos = Unset /\ msgs = Unset /\ server = Unset

Balanced ==
    /\ pc = "start"
    /\ arg' = [builder |-> "balanced"]
    /\ part' = Partitioning_balanced
    /\ pc' = "part_built"
    /\ UNCHANGED <<order, cmd, vres, vres2, wire, parsed>>
    /\ UNCHANGED <<msg, pos, msgs, server>>

PartitionId ==
    /\ pc = "start"
    /\ \E n \in PartitionIds :
          /\ arg' = [builder |-> "partition_id", input |-> n]
          /\ part' = Partitioning_partition_id(n)
    /\ pc' = "part_built"
    /\ UNCHANGED <<order, cmd, vres, vres2, wire, parsed>>
    /\ UNCHANGED <<msg, pos, msgs, server>>

MessagesKey ==
    /\ pc = "start"
    /\ \E v \in KeyValues :
          LET built == Partitioning_messages_key(v)
          IN /\ arg' = [builder |-> "messages_key", input |-> v]
             /\ part' = IF IsOk(built) THEN built.val ELSE built
             /\ pc' = IF IsOk(built) THEN "part_built" ELSE "part_failed"
    /\ UNCHANGED <<order, cmd, vres, vres2, wire, parsed>>
    /\ UNCHANGED <<msg, pos, msgs, server>>

StrValues ==
    { <<>>, <<97>>,
      <<104, 101, 108, 108, 111, 32, 119, 111, 114, 108, 100>>,
      Repeat(97, 255), Repeat(97, 256), <<195, 169>> }

MessagesKeyStr ==
    /\ pc = "start"
    /\ \E v \in StrValues :
          LET built == Partitioning_messages_key_str(v)
          IN /\ arg' = [builder |-> "messages_key_str", input |-> v]
             /\ part' = IF IsOk(built) THEN built.val ELSE built
             /\ pc' = IF IsOk(built) THEN "part_built" ELSE "part_failed"
    /\ UNCHANGED <<order, cmd, vres, vres2, wire, parsed>>
    /\ UNCHANGED <<msg, pos, msgs, server>>

\* messages_key_u32, messages_key_u64, messages_key_u128
MessagesKeyTyped ==
    /\ pc = "start"
    /\ \E n \in PartitionIds, width \in {4, 8, 16} :
          /\ arg' = [builder |-> "messages_key_typed", input |-> n, width |-> width]
          /\ part' = CASE width = 4 -> Partitioning_messages_key_u32(n)
                        [] width = 8 -> Partitioning_messages_key_u64(n)
                        [] width = 16 -> Partitioning_messages_key_u128(n)
    /\ pc' = "part_built"
    /\ UNCHANGED <<order, cmd, vres, vres2, wire, parsed>>
    /\ UNCHANGED <<msg, pos, msgs, server>>

PartAsBytes ==
    /\ pc = "part_built"
    /\ wire' = Partitioning_as_bytes(part)
    /\ pc' = "part_serialized"
    /\ UNCHANGED <<order, cmd, vres, vres2, parsed, part, arg>>
    /\ UNCHANGED <<msg, pos, msgs, server>>

PartFromBytes ==
    /\ pc = "part_serialized"
    /\ parsed' = Partitioning_from_bytes(wire)
    /\ pc' = "part_parsed"
    /\ UNCHANGED <<order, cmd, vres, vres2, wire, part, arg>>
    /\ UNCHANGED <<msg, pos, msgs, server>>

\* the arguments of Message::new
MessageIds == {None, Some(0), Some(7), Some(65536)}

MessagePayloads == {Repeat(104, n) : n \in PayloadLens}

MessageHeaders ==
    {None, Some({}), Some({HeaderOf(K1, 1)}), Some({HeaderOf(K1, 1), HeaderOf(K2, 2)})}

MessageNew ==
    /\ pc = "start"
    /\ \E id \in MessageIds, payload \in MessagePayloads, headers \in MessageHeaders :
          /\ arg' = [builder |-> "new", id |-> id, input |-> payload,
                     headers |-> headers]
          /\ msg' = Message_new(id, payload, headers)
    /\ pc' = "msg_built"
    /\ UNCHANGED <<order, cmd, vres, vres2, wire, parsed, part>>
    /\ UNCHANGED <<pos, msgs, server>>

MessageFromStr ==
    /\ pc = "start"
    /\ \E input \in MessagePayloads \cup {<<104, 101, 108, 108, 111, 32, 49>>} :
          LET built == Message_from_str(input)
          IN /\ arg' = [builder |-> "from_str", input |-> input]
             /\ msg' = IF IsOk(built) THEN built.val ELSE built
             /\ pc' = IF IsOk(built) THEN "msg_built" ELSE "msg_failed"
    /\ UNCHANGED <<order, cmd, vres, vres2, wire, parsed, part>>
    /\ UNCHANGED <<pos, msgs, server>>

MessageDefault ==
    /\ pc = "start"
    /\ arg' = [builder |-> "default"]
    /\ msg' = Message_default
    /\ pc' = "msg_built"
    /\ UNCHANGED <<order, cmd, vres, vres2, wire, parsed, part>>
    /\ UNCHANGED <<pos, msgs, server>>

\* the header map is written in the order its iterator happens to yield
MsgAsBytes ==
    /\ pc = "msg_built"
    /\ \E ord \in HashOrders : wire' = Message_as_bytes(msg, ord)
    /\ pc' = "msg_serialized"
    /\ UNCHANGED <<order, cmd, vres, vres2, parsed, part, arg>>
    /\ UNCHANGED <<msg, pos, msgs, server>>

MsgFromBytes ==
    /\ pc = "msg_serialized"
    /\ parsed' = Message_from_bytes(wire)
    /\ pc' = "msg_parsed"
    /\ UNCHANGED <<order, cmd, vres, vres2, wire, part, arg>>
    /\ UNCHANGED <<msg, pos, msgs, server>>

\* a copy of a partitioning that a builder returned
FromPartitioning ==
    /\ pc = "part_built"
    /\ arg.builder # "from_partitioning"
    /\ part' = Partitioning_from_partitioning(part)
    /\ arg' = [builder |-> "from_partitioning", partitioning |-> part]
    /\ UNCHANGED <<pc, order, cmd, vres, vres2, wire, parsed>>
    /\ UNCHANGED <<msg, pos, msgs, server>>

\* a partitioning, or a message, is parsed from bytes that no builder wrote
PartFromWire ==
    /\ pc = "start"
    /\ \E bytes \in FuzzInputs :
          /\ wire' = bytes
          /\ parsed' = Partitioning_from_bytes(bytes)
    /\ pc' = "part_received"
    /\ UNCHANGED <<order, cmd, vres, vres2, part, arg>>
    /\ UNCHANGED <<msg, pos, msgs, server>>

MsgFromWire ==
    /\ pc = "start"
    /\ \E bytes \in FuzzInputs :
          /\ wire' = bytes
          /\ parsed' = Message_from_bytes(bytes)
    /\ pc' = "msg_received"
    /\ UNCHANGED <<order, cmd, vres, vres2, part, arg>>
    /\ UNCHANGED <<msg, pos, msgs, server>>

NextPart ==
    \/ Balanced \/ PartitionId \/ MessagesKey \/ MessagesKeyStr \/ MessagesKeyTyped
    \/ FromPartitioning \/ PartAsBytes \/ PartFromBytes \/ PartFromWire
    \/ MessageNew \/ MessageFromStr \/ MessageDefault \/ MsgAsBytes \/ MsgFromBytes
    \/ MsgFromWire

SpecPart == InitPart /\ [][NextPart]_vars

-----------------------------------------------------------------------------
(* SpecLoop: SendMessages::from_bytes taken one turn of its loop at a      *)
(* time. The buffer is a serialized command, or bytes no client wrote.     *)

LoopMessages ==
    { Message_from_str(<<104, 49>>).val,
      Message_new(Some(2), <<104, 50>>, None),
      Message_new(Some(3), <<104, 51>>, Some({HeaderOf(K1, 1), HeaderOf(K2, 2)})) }

LoopCommands ==
    { [stream_id |-> ids[1], topic_id |-> ids[2], partitioning |-> p, messages |-> b] :
        ids \in IdentifierPairs, p \in BuilderPartitionings,
        b \in UNION {[1..n -> LoopMessages] : n \in 0..(MaxBatch + 1)} }

\* a message whose payload length makes 24 + length a multiple of 2^32
WrappingMessage ==
    to_le_bytes(9, 16) \o to_le_bytes(0, 4) \o to_le_bytes(U32Mod - 24, 4)
        \o Repeat(97, U32Mod - 24)

LoopBuffers ==
    { Identifier_as_bytes(Identifier_numeric(1)) \o Identifier_as_bytes(Identifier_numeric(2))
          \o Partitioning_as_bytes(Partitioning_partition_id(4)) \o WrappingMessage,
      ShortPartitionIdCommand,
      SetByte(FuzzCommands[1], 38, 9),
      SubSeq(FuzzCommands[2], 1, 8) \o DuplicateHeaderMessage \o FuzzMessages[3] }
        \cup Prefixes(FuzzCommands[1])

\* the buffer is not the serialized form of a command built here
NoCommand == [origin |-> "wire"]

InitLoop ==
    /\ pc = "loop_start"
    /\ order \in HashOrders
    /\ \/ /\ cmd \in LoopCommands
          /\ wire = SendMessages_as_bytes(cmd, order)
       \/ /\ cmd = NoCommand
          /\ wire \in LoopBuffers
    /\ vres = Unset /\ vres2 = Unset /\ parsed = Unset /\ part = Unset /\ arg = Unset
    /\ msg = Unset /\ pos = Unset /\ msgs = Unset /\ server = Unset

\* lines 425-437: the length check, the identifiers, the partitioning;
\* position = 0 and messages = Vec::new()
ParseHead ==
    /\ pc = "loop_start"
    /\ LET head == SendMessages_parse_head(wire)
       IN IF IsOk(head)
          THEN /\ arg' = head.val
               /\ pos' = 0
               /\ msgs' = <<>>
               /\ pc' = "in_loop"
               /\ UNCHANGED parsed
          ELSE /\ parsed' = head
               /\ pc' = "loop_failed"
               /\ UNCHANGED <<arg, pos, msgs>>
    /\ UNCHANGED <<order, cmd, vres, vres2, wire, part, msg, server>>

\* one turn of the loop (lines 439-443); the ? returns the error of
\* Message::from_bytes, and the sum of get_size_bytes wraps or panics when
\* it passes the range of u32
LoopStep ==
    /\ pc = "in_loop"
    /\ pos < Len(arg.messages_payloads)
    /\ Len(msgs) < MaxLoop
    /\ LET message == Message_from_bytes(
                          Slice(arg.messages_payloads, pos, Len(arg.messages_payloads)))
       IN IF ~IsOk(message)
          THEN /\ parsed' = message
               /\ pc' = "loop_failed"
               /\ UNCHANGED <<msg, pos, msgs>>
          ELSE \/ /\ msg' = message.val
                  /\ pos' = pos + Message_get_size_bytes(message.val)
                  /\ msgs' = Append(msgs, message.val)
                  /\ UNCHANGED <<pc, parsed>>
               \/ /\ Message_get_size_bytes_overflows(message.val)
                  /\ parsed' = Panic
                  /\ pc' = "loop_failed"
                  /\ UNCHANGED <<msg, pos, msgs>>
    /\ UNCHANGED <<order, cmd, vres, vres2, wire, part, arg, server>>

\* the loop has ended: the command is built, validated and returned
LoopExit ==
    /\ pc = "in_loop"
    /\ ~(pos < Len(arg.messages_payloads))
    /\ LET command == [stream_id |-> arg.stream_id, topic_id |-> arg.topic_id,
                       partitioning |-> arg.partitioning, messages |-> msgs]
           valid == SendMessages_validate(command, order)
       IN parsed' = IF ~IsOk(valid) THEN valid ELSE Ok(command)
    /\ pc' = "loop_done"
    /\ UNCHANGED <<order, cmd, vres, vres2, wire, part, arg, msg, pos, msgs, server>>

NextLoop == ParseHead \/ LoopStep \/ LoopExit

SpecLoop == InitLoop /\ [][NextLoop]_vars

-----------------------------------------------------------------------------
(* SpecKind: a kind is turned into its code and back, and a byte into a    *)
(* kind and back.                                                          *)

PartitioningKinds == {"Balanced", "PartitionId", "MessagesKey"}

InitKind ==
    /\ pc = "kind_start"
    /\ arg \in [code : 0..255] \cup [kind : PartitioningKinds]
    /\ order = <<K1, K2>>
    /\ cmd = Unset /\ vres = Unset /\ vres2 = Unset /\ wire = Unset /\ parsed = Unset
    /\ part = Unset
    /\ msg = Unset /\ pos = Unset /\ msgs = Unset /\ server = Unset

KindFromCode ==
    /\ pc = "kind_start"
    /\ "code" \in DOMAIN arg
    /\ parsed' = PartitioningKind_from_code(arg.code)
    /\ pc' = "kind_decoded"
    /\ UNCHANGED <<order, cmd, vres, vres2, wire, part, arg>>
    /\ UNCHANGED <<msg, pos, msgs, server>>

KindBackToCode ==
    /\ pc = "kind_decoded"
    /\ IsOk(parsed)
    /\ wire' = <<PartitioningKind_as_code(parsed.val)>>
    /\ pc' = "kind_recoded"
    /\ UNCHANGED <<order, cmd, vres, vres2, parsed, part, arg>>
    /\ UNCHANGED <<msg, pos, msgs, server>>

KindAsCode ==
    /\ pc = "kind_start"
    /\ "kind" \in DOMAIN arg
    /\ wire' = <<PartitioningKind_as_code(arg.kind)>>
    /\ pc' = "kind_encoded"
    /\ UNCHANGED <<order, cmd, vres, vres2, parsed, part, arg>>
    /\ UNCHANGED <<msg, pos, msgs, server>>

KindBackFromCode ==
    /\ pc = "kind_encoded"
    /\ parsed' = PartitioningKind_from_code(wire[1])
    /\ pc' = "kind_round_trip"
    /\ UNCHANGED <<order, cmd, vres, vres2, wire, part, arg>>
    /\ UNCHANGED <<msg, pos, msgs, server>>

NextKind == KindFromCode \/ KindBackToCode \/ KindAsCode \/ KindBackFromCode

SpecKind == InitKind /\ [][NextKind]_vars

-----------------------------------------------------------------------------
(* The command line: identifiers given as text *)

RECURSIVE u32_to_string(_)
\* format!("{}", n) of a u32: its decimal digits
u32_to_string(n) ==
    IF n < 10 THEN <<48 + n>> ELSE u32_to_string(n \div 10) \o <<48 + (n % 10)>>

RECURSIVE digits_value(_)
digits_value(s) ==
    IF s = <<>> THEN 0 ELSE 10 * digits_value(SubSeq(s, 1, Len(s) - 1)) + (s[Len(s)] - 48)

\* a text of digits only is a number
str_parse_u32(s) ==
    IF s # <<>> /\ \A i \in 1..Len(s) : s[i] \in 48..57
    THEN Ok(digits_value(s))
    ELSE Err("ParseIntError")

\* digits-only text is a numeric identifier, any other text a named one
Identifier_from_str(s) ==
    LET number == str_parse_u32(s)
    IN IF IsOk(number) THEN Ok(Identifier_numeric(number.val))
       ELSE IF Len(s) = 0 \/ Len(s) > 255 THEN Err("InvalidIdentifier")
       ELSE Ok(Identifier_named(s))

\* Display: a numeric identifier in decimal, a named one as its text
Identifier_to_string(id) ==
    IF id.kind = "Numeric" THEN u32_to_string(from_le_bytes(id.value)) ELSE id.value

-----------------------------------------------------------------------------
(* The server: streams, the topics of a stream, the consumer groups of a   *)
(* topic, each with a numeric id and a name                                *)

EmptyServer == [streams |-> {}, topics |-> {}, groups |-> {}]

\* the entries an identifier names: by id if numeric, by name if named
Matches(entries, id) ==
    {e \in entries : IF id.kind = "Numeric" THEN e.id = from_le_bytes(id.value)
                                             ELSE e.name = id.value}

Server_find_stream(s, stream_id) == Matches(s.streams, stream_id)

Server_find_topic(s, stream_id, topic_id) ==
    UNION {Matches({t \in s.topics : t.stream = st.id}, topic_id) :
             st \in Server_find_stream(s, stream_id)}

Server_find_consumer_group(s, stream_id, topic_id, group_id) ==
    UNION {Matches({g \in s.groups : g.stream = t.stream /\ g.topic = t.id}, group_id) :
             t \in Server_find_topic(s, stream_id, topic_id)}

Server_create_stream(s, id, name) ==
    IF \E st \in s.streams : st.id = id THEN Err("StreamIdAlreadyExists")
    ELSE IF \E st \in s.streams : st.name = name THEN Err("StreamNameAlreadyExists")
    ELSE Ok([s EXCEPT !.streams = @ \cup {[id |-> id, name |-> name]}])

Server_create_topic(s, stream_id, id, name) ==
    LET found == Server_find_stream(s, stream_id)
    IN IF found = {} THEN Err("StreamIdNotFound")
       ELSE LET st == CHOOSE x \in found : TRUE
                topics == {t \in s.topics : t.stream = st.id}
            IN IF \E t \in topics : t.id = id THEN Err("TopicIdAlreadyExists")
               ELSE IF \E t \in topics : t.name = name THEN Err("TopicNameAlreadyExists")
               ELSE Ok([s EXCEPT !.topics =
                           @ \cup {[stream |-> st.id, id |-> id, name |-> name]}])

Server_create_consumer_group(s, stream_id, topic_id, id, name) ==
    LET found == Server_find_topic(s, stream_id, topic_id)
    IN IF found = {} THEN Err("TopicIdNotFound")
       ELSE LET t == CHOOSE x \in found : TRUE
                groups == {g \in s.groups : g.stream = t.stream /\ g.topic = t.id}
            IN IF \E g \in groups : g.id = id THEN Err("ConsumerGroupIdAlreadyExists")
               ELSE IF \E g \in groups : g.name = name
                    THEN Err("ConsumerGroupNameAlreadyExists")
               ELSE Ok([s EXCEPT !.groups =
                           @ \cup {[stream |-> t.stream, topic |-> t.id,
                                    id |-> id, name |-> name]}])

Server_delete_consumer_group(s, stream_id, topic_id, group_id) ==
    IF Server_find_stream(s, stream_id) = {} THEN Err("StreamIdNotFound")
    ELSE IF Server_find_topic(s, stream_id, topic_id) = {} THEN Err("TopicIdNotFound")
    ELSE LET found == Server_find_consumer_group(s, stream_id, topic_id, group_id)
         IN IF found = {} THEN Err("ConsumerGroupIdNotFound")
            ELSE Ok([s EXCEPT !.groups = @ \ found])

Server_get_consumer_groups(s, stream_id, topic_id) ==
    LET found == Server_find_topic(s, stream_id, topic_id)
    IN IF found = {} THEN Err("TopicIdNotFound")
       ELSE LET t == CHOOSE x \in found : TRUE
            IN Ok({g \in s.groups : g.stream = t.stream /\ g.topic = t.id})

\* a topic is deleted with its consumer groups
Server_delete_topic(s, stream_id, topic_id) ==
    LET found == Server_find_topic(s, stream_id, topic_id)
    IN IF found = {} THEN Err("TopicIdNotFound")
       ELSE LET t == CHOOSE x \in found : TRUE
            IN Ok([s EXCEPT !.topics = @ \ {t},
                            !.groups = {g \in @ : ~(g.stream = t.stream /\ g.topic = t.id)}])

\* a stream is deleted with its topics and their consumer groups
Server_delete_stream(s, stream_id) ==
    LET found == Server_find_stream(s, stream_id)
    IN IF found = {} THEN Err("StreamIdNotFound")
       ELSE LET st == CHOOSE x \in found : TRUE
            IN Ok([streams |-> s.streams \ {st},
                   topics |-> {t \in s.topics : t.stream # st.id},
                   groups |-> {g \in s.groups : g.stream # st.id}])

\* `consumer-group delete <stream> <topic> <group>`: the three texts are
\* parsed as identifiers and the group is deleted; the output names the
\* group, the topic and the stream as they were given
Cli_consumer_group_delete(s, args) ==
    LET stream_id == Identifier_from_str(args[1])
        topic_id == Identifier_from_str(args[2])
        group_id == Identifier_from_str(args[3])
    IN IF ~IsOk(stream_id) \/ ~IsOk(topic_id) \/ ~IsOk(group_id)
       THEN [success |-> FALSE, stdout |-> <<>>, server |-> s]
       ELSE LET deleted == Server_delete_consumer_group(s, stream_id.val, topic_id.val,
                                                        group_id.val)
                named == <<Identifier_to_string(group_id.val),
                           Identifier_to_string(topic_id.val),
                           Identifier_to_string(stream_id.val)>>
            IN IF IsOk(deleted)
               THEN [success |-> TRUE, stdout |-> <<named, named>>, server |-> deleted.val]
               ELSE [success |-> FALSE, stdout |-> <<named>>, server |-> s]

-----------------------------------------------------------------------------
(* SpecCli: the test of `consumer-group delete`. Each case prepares the    *)
(* server, runs the command and verifies the server, on one server.        *)

\* "stream", "topic", "consumer-group" and a name made of digits
StreamName == <<115, 116, 114, 101, 97, 109>>

TopicName == <<116, 111, 112, 105, 99>>

ConsumerGroupName == <<99, 111, 110, 115, 117, 109, 101, 114, 45, 103, 114, 111, 117, 112>>

DigitsName == <<49, 50>>

\* the eight cases of should_be_successful, in their order
test_parameters ==
    << <<"Numeric", "Numeric", "Numeric">>, <<"Numeric", "Numeric", "Named">>,
       <<"Numeric", "Named", "Numeric">>, <<"Numeric", "Named", "Named">>,
       <<"Named", "Numeric", "Numeric">>, <<"Named", "Numeric", "Named">>,
       <<"Named", "Named", "Numeric">>, <<"Named", "Named", "Named">> >>

TestConsumerGroupDeleteCmd_new(stream_id, stream_name, topic_id, topic_name, consumer_group_id, consumer_group_name, using) ==
    [stream_id |-> stream_id, stream_name |-> stream_name,
     topic_id |-> topic_id, topic_name |-> topic_name,
     consumer_group_id |-> consumer_group_id,
     consumer_group_name |-> consumer_group_name,
     using_stream_id |-> using[1], using_topic_id |-> using[2],
     using_consumer_group_id |-> using[3]]

\* mutant: the topic is given before the stream
TestConsumerGroupDeleteCmd_to_args_swapped(t) ==
    << IF t.using_topic_id = "Numeric" THEN u32_to_string(t.topic_id) ELSE t.topic_name,
       IF t.using_stream_id = "Numeric" THEN u32_to_string(t.stream_id) ELSE t.stream_name,
       IF t.using_consumer_group_id = "Numeric" THEN u32_to_string(t.consumer_group_id)
                                                ELSE t.consumer_group_name >>

TestConsumerGroupDeleteCmd_to_args(t) ==
    << IF t.using_stream_id = "Numeric" THEN u32_to_string(t.stream_id) ELSE t.stream_name,
       IF t.using_topic_id = "Numeric" THEN u32_to_string(t.topic_id) ELSE t.topic_name,
       IF t.using_consumer_group_id = "Numeric" THEN u32_to_string(t.consumer_group_id)
                                                ELSE t.consumer_group_name >>

\* the values should_be_successful passes, and others for the same test case
TestIds == {<<1, 2, 3>>, <<12, 2, 1>>}

TestNames ==
    {<<StreamName, TopicName, ConsumerGroupName>>,
     <<DigitsName, TopicName, ConsumerGroupName>>,
     <<StreamName, TopicName, DigitsName>>}

InitCli ==
    /\ pc = "test_start"
    /\ pos = 1
    /\ \E ids \in TestIds, names \in TestNames :
          cmd = TestConsumerGroupDeleteCmd_new(ids[1], names[1], ids[2], names[2],
                                               ids[3], names[3], test_parameters[1])
    /\ server = EmptyServer
    /\ order = <<K1, K2>>
    /\ vres = Unset /\ vres2 = Unset /\ wire = Unset /\ parsed = Unset
    /\ part = Unset /\ arg = Unset /\ msg = Unset /\ msgs = Unset

\* one request of the test: the assertion on its result ends the test
Requested(result, next) ==
    /\ vres' = result
    /\ server' = IF IsOk(result) THEN result.val ELSE server
    /\ pc' = IF IsOk(result) THEN next ELSE "test_failed"

PrepareCreateStream ==
    /\ pc = "test_start"
    /\ Requested(Server_create_stream(server, cmd.stream_id, cmd.stream_name),
                 "stream_created")
    /\ UNCHANGED <<order, cmd, vres2, wire, parsed, part, arg, msg, pos, msgs>>

PrepareCreateTopic ==
    /\ pc = "stream_created"
    /\ Requested(Server_create_topic(server, Identifier_numeric(cmd.stream_id),
                                     cmd.topic_id, cmd.topic_name),
                 "topic_created")
    /\ UNCHANGED <<order, cmd, vres2, wire, parsed, part, arg, msg, pos, msgs>>

PrepareCreateConsumerGroup ==
    /\ pc = "topic_created"
    /\ Requested(Server_create_consumer_group(server, Identifier_numeric(cmd.stream_id),
                                              Identifier_numeric(cmd.topic_id),
                                              cmd.consumer_group_id,
                                              cmd.consumer_group_name),
                 "server_prepared")
    /\ UNCHANGED <<order, cmd, vres2, wire, parsed, part, arg, msg, pos, msgs>>

\* get_command and verify_command: the command must succeed and print the
\* identifiers as the test gave them
ExecuteCommand ==
    /\ pc = "server_prepared"
    /\ LET args == TestConsumerGroupDeleteCmd_to_args(cmd)
           state == Cli_consumer_group_delete(server, args)
           message == <<args[3], args[2], args[1]>>
       IN /\ arg' = args
          /\ vres' = [success |-> state.success, stdout |-> state.stdout]
          /\ server' = state.server
          /\ pc' = IF state.success /\ state.stdout = <<message, message>>
                   THEN "command_verified" ELSE "test_failed"
    /\ UNCHANGED <<order, cmd, vres2, wire, parsed, part, msg, pos, msgs>>

VerifyGetConsumerGroups ==
    /\ pc = "command_verified"
    /\ parsed' = Server_get_consumer_groups(server, Identifier_numeric(cmd.stream_id),
                                            Identifier_numeric(cmd.topic_id))
    /\ pc' = IF IsOk(parsed') /\ Cardinality(parsed'.val) = 0
             THEN "groups_listed" ELSE "test_failed"
    /\ UNCHANGED <<order, cmd, vres, vres2, wire, part, arg, msg, pos, msgs, server>>

VerifyDeleteTopic ==
    /\ pc = "groups_listed"
    /\ Requested(Server_delete_topic(server, Identifier_numeric(cmd.stream_id),
                                     Identifier_numeric(cmd.topic_id)),
                 "topic_deleted")
    /\ UNCHANGED <<order, cmd, vres2, wire, parsed, part, arg, msg, pos, msgs>>

VerifyDeleteStream ==
    /\ pc = "topic_deleted"
    /\ Requested(Server_delete_stream(server, Identifier_numeric(cmd.stream_id)),
                 "stream_deleted")
    /\ UNCHANGED <<order, cmd, vres2, wire, parsed, part, arg, msg, pos, msgs>>

\* the loop of should_be_successful takes the next case, on the same server
NextTestCase ==
    /\ pc = "stream_deleted"
    /\ pos < Len(test_parameters)
    /\ pos' = pos + 1
    /\ cmd' = TestConsumerGroupDeleteCmd_new(cmd.stream_id, cmd.stream_name,
                                             cmd.topic_id, cmd.topic_name,
                                             cmd.consumer_group_id,
                                             cmd.consumer_group_name,
                                             test_parameters[pos + 1])
    /\ pc' = "test_start"
    /\ UNCHANGED <<order, vres, vres2, wire, parsed, part, arg, msg, msgs, server>>

NextCli ==
    \/ PrepareCreateStream \/ PrepareCreateTopic \/ PrepareCreateConsumerGroup
    \/ ExecuteCommand
    \/ VerifyGetConsumerGroups \/ VerifyDeleteTopic \/ VerifyDeleteStream
    \/ NextTestCase

SpecCli == InitCli /\ [][NextCli]_vars

-----------------------------------------------------------------------------
(* Measures of a batch used by the properties *)

Validated == pc \in {"validated", "revalidated", "serialized", "parsed"}

\* header value bytes of one message, each length taken as u32
ValueBytes(m) ==
    IF m.headers = None THEN 0
    ELSE LET h == m.headers[1]
             RECURSIVE Sum(_)
             Sum(es) == IF es = {} THEN 0
                        ELSE LET e == CHOOSE x \in es : TRUE
                             IN as_u32(Len(e.value)) + Sum(es \ {e})
         IN Sum(h)

\* the two u32 accumulators of validate after the first i messages
RunningHeaders(c, i) == SumSeq([j \in 1..i |-> ValueBytes(c.messages[j])]) % U32Mod

RunningPayload(c, i) ==
    SumSeq([j \in 1..i |-> as_u32(Len(c.messages[j].payload))]) % U32Mod

\* the number of payload bytes of the batch
TruePayloadBytes(c) == SumSeq([j \in 1..Len(c.messages) |-> Len(c.messages[j].payload)])

\* the number of bytes of the header records the batch carries on the wire
WireHeaderBytes(c) ==
    SumSeq([j \in 1..Len(c.messages) |->
              IF c.messages[j].headers = None THEN 0
              ELSE Len(Headers_as_bytes(c.messages[j].headers[1], order))])

KeyLengthInvalid(c) ==
    \/ Len(c.partitioning.value) > 255
    \/ c.partitioning.kind # "Balanced" /\ c.partitioning.value = <<>>

WalkFailsAt(c, i) ==
    RunningHeaders(c, i) > MAX_HEADERS_SIZE \/ RunningPayload(c, i) > MAX_PAYLOAD_SIZE

\* the result the documented order of checks prescribes
FirstFailure(c) ==
    IF Len(c.messages) = 0 THEN Err("InvalidMessagesCount")
    ELSE IF KeyLengthInvalid(c) THEN Err("InvalidKeyValueLength")
    ELSE IF \E i \in 1..Len(c.messages) : WalkFailsAt(c, i)
    THEN LET i == CHOOSE k \in 1..Len(c.messages) :
                      WalkFailsAt(c, k) /\ \A j \in 1..(k - 1) : ~WalkFailsAt(c, j)
         IN IF RunningHeaders(c, i) > MAX_HEADERS_SIZE
            THEN Err("TooBigHeadersPayload")
            ELSE Err("TooBigMessagePayload")
    ELSE IF RunningPayload(c, Len(c.messages)) = 0 THEN Err("EmptyMessagePayload")
    ELSE Ok("unit")

-----------------------------------------------------------------------------
(* Properties of SendMessages::validate *)

\* C3: validate returns the first failure in the order: empty batch, key
\* length, per message header total then payload total, and only after
\* the walk the zero payload total; otherwise Ok.
ValidationOrder == Validated => vres = FirstFailure(cmd)

\* C3 witness: a batch that breaks the key rule, the payload bound in its
\* first message and the header bound in its second is reported as
\* InvalidKeyValueLength
WitnessValidationOrder ==
    /\ Validated
    /\ Len(cmd.messages) = 2
    /\ KeyLengthInvalid(cmd)
    /\ RunningPayload(cmd, 1) > MAX_PAYLOAD_SIZE
    /\ ValueBytes(cmd.messages[2]) > MAX_HEADERS_SIZE
    /\ vres = Err("InvalidKeyValueLength")

\* C4: a batch with at least one message of empty payload is rejected
EmptyPayloadRejected ==
    (Validated /\ \E i \in 1..Len(cmd.messages) : cmd.messages[i].payload = <<>>)
        => ~IsOk(vres)

\* C5: without headers and with a valid partitioning, validate accepts
\* exactly the batches whose payload bytes sum to 1..MAX_PAYLOAD_SIZE and
\* reports TooBigMessagePayload above
PayloadBound ==
    (/\ Validated
     /\ Len(cmd.messages) > 0
     /\ cmd.partitioning \in BuilderPartitionings
     /\ \A i \in 1..Len(cmd.messages) : cmd.messages[i].headers = None)
        => /\ TruePayloadBytes(cmd) \in 1..MAX_PAYLOAD_SIZE => IsOk(vres)
           /\ TruePayloadBytes(cmd) > MAX_PAYLOAD_SIZE
                 => vres = Err("TooBigMessagePayload")

\* C6: a batch whose header records exceed MAX_HEADERS_SIZE on the wire
\* (and that breaks no earlier rule) is reported as TooBigHeadersPayload
HeaderBound ==
    (/\ Validated
     /\ Len(cmd.messages) > 0
     /\ ~KeyLengthInvalid(cmd)
     /\ \A i \in 1..Len(cmd.messages) : RunningPayload(cmd, i) <= MAX_PAYLOAD_SIZE
     /\ WireHeaderBytes(cmd) > MAX_HEADERS_SIZE)
        => vres = Err("TooBigHeadersPayload")

\* C7: validate rejects Balanced with a value and PartitionId or
\* MessagesKey without one, and accepts a MessagesKey of 255 bytes
PartitioningValidity ==
    Validated =>
        /\ (cmd.partitioning.kind = "Balanced" /\ cmd.partitioning.value # <<>>)
              => ~IsOk(vres)
        /\ (cmd.partitioning.kind # "Balanced" /\ cmd.partitioning.value = <<>>)
              => ~IsOk(vres)
        /\ (/\ cmd.partitioning.kind = "MessagesKey"
            /\ Len(cmd.partitioning.value) = 255
            /\ Len(cmd.messages) = 1
            /\ Len(cmd.messages[1].payload) = 1
            /\ cmd.messages[1].headers = None)
              => IsOk(vres)

-----------------------------------------------------------------------------
(* Properties of the codec *)

\* C1: a command that validate accepts, with a partitioning from a builder
\* and messages from Message::new, parses back from its bytes to an equal
\* command
RoundTrip ==
    (pc = "parsed" /\ IsOk(vres) /\ cmd.partitioning \in BuilderPartitionings)
        => parsed = Ok(cmd)

Parsers == {"parsed_send_messages", "parsed_partitioning", "parsed_message"}

\* C2: on every byte buffer each of the three parsers returns, with an
\* error or with a value, and never aborts on an out-of-range index
FuzzRobust == pc \in Parsers => parsed.tag \in {"Ok", "Err"}

\* C8: a command returned Ok by SendMessages::from_bytes or
\* LogoutUser::from_bytes passes validate, and a second call of validate
\* returns the same result and leaves the command as parsed
ParsedIsValid ==
    /\ pc \in {"validated", "revalidated", "logout_validated", "logout_revalidated"}
          => IsOk(vres) /\ cmd = parsed.val
    /\ pc \in {"revalidated", "logout_revalidated"} => vres2 = vres

\* C8 witness: a parsed SendMessages command with a message has been
\* validated twice
WitnessParsedIsValid ==
    /\ pc = "revalidated"
    /\ IsOk(parsed)
    /\ Len(cmd.messages) > 0
    /\ vres2 = Ok("unit")

\* C9: for a command that validate accepts, the partitioning, every message
\* and the whole command serialize to as many bytes as get_size_bytes
\* declares
LengthDiscipline ==
    (pc \in {"serialized", "parsed"} /\ IsOk(vres)) =>
        /\ Len(Partitioning_as_bytes(cmd.partitioning))
              = Partitioning_get_size_bytes(cmd.partitioning)
        /\ \A i \in 1..Len(cmd.messages) :
              Len(Message_as_bytes(cmd.messages[i], order))
                  = Message_get_size_bytes(cmd.messages[i])
        /\ Len(wire) = Identifier_get_size_bytes(cmd.stream_id)
                         + Identifier_get_size_bytes(cmd.topic_id)
                         + Partitioning_get_size_bytes(cmd.partitioning)
                         + SumSeq([i \in 1..Len(cmd.messages) |->
                                      Message_get_size_bytes(cmd.messages[i])])

PartSerialized == pc \in {"part_serialized", "part_parsed"}

\* C10: a partitioning from a builder serializes to the kind code (1
\* Balanced, 2 PartitionId, 3 MessagesKey), the length byte and the value;
\* balanced() to [1, 0]; partition_id(n) to length 4 and n in little-endian,
\* partition_id(4) to [2, 4, 4, 0, 0, 0]
PartitioningWireForm ==
    PartSerialized =>
        /\ Len(wire) = 2 + Len(part.value)
        /\ wire[2] = Len(part.value)
        /\ \A i \in 1..Len(part.value) : wire[2 + i] = part.value[i]
        /\ arg.builder = "balanced" => wire = <<1, 0>>
        /\ arg.builder = "partition_id" =>
              /\ Len(wire) = 6 /\ wire[1] = 2 /\ wire[2] = 4
              /\ \A i \in 3..6 : wire[i] \in 0..255
              /\ wire[3] + 256 * wire[4] + 65536 * wire[5] + 16777216 * wire[6]
                    = arg.input
              /\ arg.input = 4 => wire = <<2, 4, 4, 0, 0, 0>>
        /\ arg.builder = "messages_key" => wire = <<3, Len(arg.input)>> \o arg.input
        /\ arg.builder = "messages_key_typed" =>
              /\ Len(wire) = 2 + arg.width /\ wire[1] = 3 /\ wire[2] = arg.width
              /\ \A i \in 3..Len(wire) : wire[i] \in 0..255
              /\ wire[3] + 256 * wire[4] + 65536 * wire[5] + 16777216 * wire[6]
                    = arg.input
              /\ \A i \in 7..Len(wire) : wire[i] = 0

\* C10 witness: partition_id(1234) has been serialized, low byte first
WitnessPartitioningWireForm ==
    /\ pc = "part_serialized"
    /\ arg = [builder |-> "partition_id", input |-> 1234]
    /\ wire = <<2, 4, 210, 4, 0, 0>>

-----------------------------------------------------------------------------
(* Properties of the builders *)

ByMessagesKey ==
    /\ pc \in {"part_built", "part_failed", "part_serialized", "part_parsed"}
    /\ arg.builder \in {"messages_key", "messages_key_str"}

\* C11: messages_key and messages_key_str fail with InvalidCommand exactly
\* on an input of 0 or of more than 255 bytes, and otherwise return kind
\* MessagesKey, length = number of input bytes, value = the input bytes
MessagesKeyBuilder ==
    ByMessagesKey =>
        IF Len(arg.input) = 0 \/ Len(arg.input) > 255
        THEN pc = "part_failed" /\ part = Err("InvalidCommand")
        ELSE /\ pc # "part_failed"
             /\ part.kind = "MessagesKey"
             /\ part.length = Len(arg.input)
             /\ part.value = arg.input

\* C11 witness: a key of 255 bytes has been accepted
WitnessMessagesKeyBuilder ==
    /\ pc = "part_built"
    /\ arg.builder = "messages_key"
    /\ Len(arg.input) = 255
    /\ part.length = 255

\* C12: LogoutUser has no payload: as_bytes gives zero bytes, from_bytes of
\* the empty buffer gives Ok(LogoutUser), from_bytes of any non-empty buffer
\* gives Err(InvalidCommand)
LogoutUserCodec ==
    /\ pc = "parsed_logout_user" =>
          /\ wire = <<>> => parsed = Ok(LogoutUser)
          /\ wire # <<>> => parsed = Err("InvalidCommand")
    /\ pc = "logout_serialized" => cmd = LogoutUser /\ wire = <<>>
    /\ LogoutUser_as_bytes(LogoutUser) = <<>>

\* C12 witness: the one-byte buffer [0] has been refused
WitnessLogoutUserCodec ==
    /\ pc = "parsed_logout_user"
    /\ wire = <<0>>
    /\ parsed = Err("InvalidCommand")

ByMessageBuilder(builder) ==
    /\ pc \in {"msg_built", "msg_failed", "msg_serialized", "msg_parsed"}
    /\ arg.builder = builder

\* C13: Message::new gives id 0 for None and Some(0) and id n for Some(n), and
\* a length equal to the payload's byte length; Message::from_str of a
\* non-empty string gives id 0, length = byte length, payload = the bytes,
\* headers None, and serializes to 16 bytes of id, 4 zero bytes, 4 bytes of
\* payload length and the payload; from_str of "" fails with
\* EmptyMessagePayload
MessageConstruction ==
    /\ ByMessageBuilder("new") =>
          /\ msg.id = (IF arg.id \in {None, Some(0)} THEN 0 ELSE arg.id[1])
          /\ msg.length = Len(arg.input)
    /\ ByMessageBuilder("from_str") =>
          IF arg.input = <<>>
          THEN pc = "msg_failed" /\ msg = Err("EmptyMessagePayload")
          ELSE /\ pc # "msg_failed"
               /\ msg = [id |-> 0, length |-> Len(arg.input),
                         payload |-> arg.input, headers |-> None]
               /\ pc \in {"msg_serialized", "msg_parsed"} =>
                     /\ Len(wire) = 24 + Len(arg.input)
                     /\ Slice(wire, 0, 16) = Repeat(0, 16)
                     /\ Slice(wire, 16, 20) = Repeat(0, 4)
                     /\ from_le_bytes(Slice(wire, 20, 24)) = Len(arg.input)
                     /\ Slice(wire, 24, Len(wire)) = arg.input

\* the case of the claim: stream 1 'stream', topic 2 'topic' and consumer
\* group 3 'consumer-group'
ClaimedTestCase ==
    /\ cmd.stream_id = 1 /\ cmd.stream_name = StreamName
    /\ cmd.topic_id = 2 /\ cmd.topic_name = TopicName
    /\ cmd.consumer_group_id = 3 /\ cmd.consumer_group_name = ConsumerGroupName

KindCodes ==
    /\ pc \in {"kind_encoded", "kind_round_trip"} =>
          wire = <<CASE arg.kind = "Balanced" -> 1
                     [] arg.kind = "PartitionId" -> 2
                     [] arg.kind = "MessagesKey" -> 3>>
    /\ pc = "kind_round_trip" => parsed = Ok(arg.kind)
    /\ pc \in {"kind_decoded", "kind_recoded"} =>
          IF arg.code \in {1, 2, 3} THEN IsOk(parsed) ELSE parsed = Err("InvalidCommand")
    /\ pc = "kind_recoded" => wire = <<arg.code>>

\* C15 witness: the byte 0 has been refused
WitnessKindCodes ==
    /\ pc = "kind_decoded"
    /\ arg.code = 0
    /\ parsed = Err("InvalidCommand")

\* C16: for every partitioning p from balanced(), partition_id(n),
\* messages_key(v) or a typed messages_key helper,
\* Partitioning::from_bytes(p.as_bytes()) = Ok(p) with no bytes after the
\* serialized partitioning, balanced() with its 2 bytes included
PartitioningRoundTrip ==
    pc = "part_parsed" => parsed = Ok(part)

\* C17: every command returned Ok by SendMessages::from_bytes whose
\* partitioning has the kind PartitionId has length 4 and a value of 4
\* bytes, so that Display, which reads value[..4], stays in bounds
PartitionIdFourBytes ==
    /\ pc = "parsed_send_messages" /\ IsOk(parsed)
           /\ parsed.val.partitioning.kind = "PartitionId" =>
          /\ parsed.val.partitioning.length = 4
          /\ Len(parsed.val.partitioning.value) = 4
    /\ pc = "displayed" => vres.tag # "Panic"

\* C18: every Partitioning from a builder, from from_partitioning of such a
\* value or from a successful Partitioning::from_bytes has length = number
\* of bytes in value; every Message from Message::new, Message::from_str,
\* Message::default or a successful Message::from_bytes has length = number
\* of bytes in payload
LengthsAgree ==
    /\ pc \in {"part_built", "part_serialized", "part_parsed"} =>
          part.length = Len(part.value)
    /\ pc \in {"part_parsed", "part_received"} /\ IsOk(parsed) =>
          parsed.val.length = Len(parsed.val.value)
    /\ pc \in {"msg_built", "msg_serialized", "msg_parsed"} =>
          msg.length = Len(msg.payload)
    /\ pc \in {"msg_parsed", "msg_received"} /\ IsOk(parsed) =>
          parsed.val.length = Len(parsed.val.payload)

\* the buffer ends with the partitioning: two identifiers, then a kind
\* byte, a length byte and that many bytes
NoBytesAfterPartitioning ==
    /\ Len(wire) >= 6
    /\ LET p1 == 2 + wire[2]
       IN /\ Len(wire) >= p1 + 2
          /\ LET p2 == p1 + 2 + wire[p1 + 2]
             IN /\ Len(wire) >= p2 + 2
                /\ Len(wire) = p2 + 2 + wire[p2 + 2]

\* C19: each message the loop parses advances the position by at least 25
\* bytes, so the loop ends, with an error or with the position at the end
\* of the buffer; on success the parsed messages are the serialized
\* messages in their order; a buffer with no bytes after the partitioning
\* yields InvalidMessagesCount
ParsingLoop ==
    /\ pc \in {"in_loop", "loop_done"} => pos >= 25 * Len(msgs)
    /\ pc = "loop_done" => pos = Len(arg.messages_payloads)
    /\ pc = "loop_done" /\ IsOk(parsed) /\ "messages" \in DOMAIN cmd =>
          parsed.val.messages = cmd.messages
    /\ pc \in {"loop_done", "loop_failed"} /\ NoBytesAfterPartitioning =>
          parsed = Err("InvalidMessagesCount")

=============================================================================
